---- MODULE Spec2Model ----
(***************************************************************************)
(* Graceful shutdown of rickb777/manners (server.go).                      *)
(*                                                                         *)
(* server.go holds two generations of the package:                         *)
(*   "addr" : lines 1-391.  Close() closes the shutdown channel, the       *)
(*            per-connection state lives in the connection's address       *)
(*            (gconn.lastHTTPState), a StateHandler can be registered and   *)
(*            the package keeps the process registry `servers`.            *)
(*   "map"  : lines 393-680.  Close() receives from the shutdown channel   *)
(*            and returns a bool, the per-connection state lives in the    *)
(*            lastConnState map.                                           *)
(* One server instance is modelled in full (Spec); the package-level       *)
(* registry of the "addr" generation is modelled by SpecRegistry.          *)
(***************************************************************************)
EXTENDS Integers, Sequences, FiniteSets, TLC

\* ---------------------------------------------------------------- bounds
MaxConns == 2
MaxClosers == 2
MaxRoutines == 1
MaxCount == 3           \* bound on a connection's share of s.wg, either sign
MaxServers == 2
MaxGlobalClosers == 2

Conns == 1..MaxConns
Closers == 1..MaxClosers
Insts == 1..MaxServers
GlobalClosers == 1..MaxGlobalClosers

\* ------------------------------------------------------------- constants
Variants == {"addr", "map"}

StateNew == "New"
StateActive == "Active"
StateIdle == "Idle"
StateHijacked == "Hijacked"
StateClosed == "Closed"
ConnStates == {StateNew, StateActive, StateIdle, StateHijacked, StateClosed}
Terminal == {StateClosed, StateHijacked}

\* no connection yet (engine) / no entry in the table (tracker)
NoConn == "none"
NoEntry == "absent"

\* what the serving call (http.Server.Serve / fcgi.Serve) can return: the
\* Accept failure after listener.Close(), or a genuine socket failure
ListenerClosed == "ListenerClosed"
GenuineErrs == {"E1", "E2"}
NoErr == "unset"

VARIABLES
    variant,        \* which generation of server.go
    stateHandler,   \* s.stateHandler # nil            ("addr" only)
    orgConnState,   \* s.Server.ConnState # nil before Serve
    shutdown,       \* the channel s.shutdown: "open" | "closed"
    closer,         \* position of each caller of s.Close()
    gpc,            \* position of the goroutine spawned by Serve
    closing,        \* var closing int32
    keepAlives,     \* s.Server keep-alives enabled
    listener,       \* the listener handed to Serve: "open" | "closed"
    listenerCloses, \* number of listener.Close() calls
    servePc,        \* position of Serve
    err,            \* err of the serving call
    result,         \* what Serve returned
    wg,             \* s.wg counter
    routines,       \* StartRoutine() calls of handler code not yet finished
    conn,           \* the serving engine's state of each connection
    lastConnState,  \* s.lastConnState / gconn.lastHTTPState
    connClosed,     \* connections on which conn.Close() was called
    fwd,            \* calls made to the observers by the last notification
    panicked,       \* the process died of a runtime panic
    closeBeforeServe, \* some Close() was called before Serve started
    activeAtClose,  \* connections Active at the shutdown request, Active since
    idleAtClose,    \* connections Idle at the shutdown request, Idle since
    contrib,        \* what each connection has added to s.wg so far
    servers,        \* var servers []*GracefulServer
    m,              \* var m sync.Mutex: Free, or its holder
    regPc,          \* position of each package-level ListenAndServe call
    regShutdown,    \* the shutdown channel of each registered instance
    regClosed,      \* number of s.Close() calls global Close made on each
    gcPc,           \* position of each caller of the global Close()
    gcTodo          \* what is left of `range servers` in each global Close()

instVars == << variant, stateHandler, orgConnState, shutdown, closer, gpc,
               closing, keepAlives, listener, listenerCloses, servePc, err,
               result, wg, routines, conn, lastConnState, connClosed, fwd,
               closeBeforeServe, activeAtClose, idleAtClose, contrib >>

regVars == << servers, m, regPc, regShutdown, regClosed, gcPc, gcTodo >>

vars == << instVars, regVars, panicked >>

\* ------------------------------------------------- the tracker's helpers

\* s.lastConnState[conn] / gconn.lastHTTPState: a connection never seen
\* reads as the zero value of http.ConnState, which is StateNew
LastState(c) ==
    IF lastConnState[c] = NoEntry THEN StateNew ELSE lastConnState[c]

\* mutant: Closed/Hijacked always calls s.FinishRoutine()
DeltaTerminalAlways(last, newState) ==
    CASE newState = StateNew -> 1
      [] newState = StateActive -> IF last = StateIdle THEN 1 ELSE 0
      [] newState = StateIdle -> -1
      [] newState \in Terminal -> -1

\* mutant: every Active notification counts, also the first after New
DeltaActiveAlways(last, newState) ==
    CASE newState = StateNew -> 1
      [] newState = StateActive -> 1
      [] newState = StateIdle -> -1
      [] newState \in Terminal -> IF last # StateIdle THEN -1 ELSE 0

\* mutant: a connection coming back from idle is not counted again
DeltaResumeMissed(last, newState) ==
    CASE newState = StateNew -> 1
      [] newState = StateActive -> 0
      [] newState = StateIdle -> -1
      [] newState \in Terminal -> IF last # StateIdle THEN -1 ELSE 0

\* mutant: the idle case without s.FinishRoutine()
DeltaIdleKept(last, newState) ==
    CASE newState = StateNew -> 1
      [] newState = StateActive -> IF last = StateIdle THEN 1 ELSE 0
      [] newState = StateIdle -> 0
      [] newState \in Terminal -> IF last # StateIdle THEN -1 ELSE 0

\* the switch of the ConnState closure: what it adds to s.wg
Delta(last, newState) ==
    CASE newState = StateNew -> 1
      [] newState = StateActive -> IF last = StateIdle THEN 1 ELSE 0
      [] newState = StateIdle -> -1
      [] newState \in Terminal -> IF last # StateIdle THEN -1 ELSE 0

\* mutant: the idle case without conn.Close()
ReapedNever(c, newState) == connClosed

\* the idle case: conn.Close() when the closing flag is set
Reaped(c, newState) ==
    IF newState = StateIdle /\ closing = 1 THEN connClosed \cup {c}
    ELSE connClosed

\* mutant: the table keeps the entry of a terminated connection
TrackedKeep(c, newState) == [lastConnState EXCEPT ![c] = newState]

\* the table after the notification: the map deletes a terminated
\* connection, the address field keeps the last state
Tracked(c, newState) ==
    IF variant = "map" /\ newState \in Terminal
    THEN [lastConnState EXCEPT ![c] = NoEntry]
    ELSE [lastConnState EXCEPT ![c] = newState]

\* mutant: the StateHandler is called after lastHTTPState was updated
ForwardedLate(c, last, newState) ==
    (IF variant = "addr" /\ stateHandler
     THEN << <<"stateHandler", c, newState, newState>> >> ELSE << >>)
    \o (IF orgConnState THEN << <<"ConnState", c, newState>> >> ELSE << >>)

\* the calls the closure makes to the registered observers, in order
Forwarded(c, last, newState) ==
    (IF variant = "addr" /\ stateHandler
     THEN << <<"stateHandler", c, last, newState>> >> ELSE << >>)
    \o (IF orgConnState THEN << <<"ConnState", c, newState>> >> ELSE << >>)

\* s.ConnState(conn, newState), the whole closure
ConnState(c, newState) ==
    LET last == LastState(c)
        n == wg + Delta(last, newState)
    IN  /\ wg' = n
        /\ panicked' = (n < 0)       \* sync: negative WaitGroup counter
        /\ connClosed' = Reaped(c, newState)
        /\ lastConnState' = Tracked(c, newState)
        /\ fwd' = Forwarded(c, last, newState)
        /\ conn' = [conn EXCEPT ![c] = newState]
        /\ activeAtClose' = IF newState \in {StateIdle} \cup Terminal
                            THEN activeAtClose \ {c} ELSE activeAtClose
        /\ idleAtClose' = idleAtClose \ {c}
        /\ contrib' = [contrib EXCEPT ![c] = @ + Delta(last, newState)]

\* ------------------------------------------------- the serving engine

\* the transitions net/http reports for one connection
EngineNext(old) ==
    CASE old = StateNew -> {StateActive, StateClosed}
      [] old = StateActive -> {StateIdle, StateClosed, StateHijacked}
      [] old = StateIdle -> {StateActive, StateClosed}
      [] OTHER -> {}

\* Accept succeeds inside the serving call: the engine reports StateNew.
\* Connections are numbered in the order they are accepted.
Accept(c) ==
    /\ ~panicked
    /\ servePc = "serving"
    /\ listener = "open"
    /\ conn[c] = NoConn
    /\ \A d \in Conns : d < c => conn[d] # NoConn
    /\ ConnState(c, StateNew)
    /\ UNCHANGED << variant, stateHandler, orgConnState, shutdown, closer, gpc,
                    closing, keepAlives, listener, listenerCloses, servePc,
                    err, result, routines, closeBeforeServe, regVars >>

\* a connection's goroutine reports its next state; a connection the
\* tracker closed cannot read another request
Transition(c, newState) ==
    /\ ~panicked
    /\ conn[c] \in ConnStates
    /\ newState \in EngineNext(conn[c])
    /\ (newState = StateActive => c \notin connClosed)
    /\ ConnState(c, newState)
    /\ UNCHANGED << variant, stateHandler, orgConnState, shutdown, closer, gpc,
                    closing, keepAlives, listener, listenerCloses, servePc,
                    err, result, routines, closeBeforeServe, regVars >>

\* s.ConnState called with any state for a connection the tracker has
\* seen: a notification repeated or out of the engine's order.  The share
\* of one connection in s.wg is kept within MaxCount.
Notify(c, newState) ==
    /\ ~panicked
    /\ conn[c] \in ConnStates
    /\ contrib[c] + Delta(LastState(c), newState) \in -MaxCount..MaxCount
    /\ ConnState(c, newState)
    /\ UNCHANGED << variant, stateHandler, orgConnState, shutdown, closer, gpc,
                    closing, keepAlives, listener, listenerCloses, servePc,
                    err, result, routines, closeBeforeServe, regVars >>

\* ------------------------------------------- StartRoutine / FinishRoutine

\* mutant: StartRoutine() without s.wg.Add(1)
StartRoutineNoAdd ==
    /\ ~panicked
    /\ \E c \in Conns : conn[c] = StateActive
    /\ routines < MaxRoutines
    /\ routines' = routines + 1
    /\ UNCHANGED << variant, stateHandler, orgConnState, shutdown, closer, gpc,
                    closing, keepAlives, listener, listenerCloses, servePc,
                    err, result, conn, lastConnState, connClosed, fwd, wg,
                    closeBeforeServe, activeAtClose, idleAtClose,
                    contrib, regVars, panicked >>

\* handler code of a request in flight opts background work in
StartRoutine ==
    /\ ~panicked
    /\ \E c \in Conns : conn[c] = StateActive
    /\ routines < MaxRoutines
    /\ wg' = wg + 1
    /\ routines' = routines + 1
    /\ UNCHANGED << variant, stateHandler, orgConnState, shutdown, closer, gpc,
                    closing, keepAlives, listener, listenerCloses, servePc,
                    err, result, conn, lastConnState, connClosed, fwd,
                    closeBeforeServe, activeAtClose, idleAtClose,
                    contrib, regVars, panicked >>

\* the background work ends
FinishRoutine ==
    /\ ~panicked
    /\ routines > 0
    /\ wg' = wg - 1
    /\ panicked' = (wg - 1 < 0)
    /\ routines' = routines - 1
    /\ UNCHANGED << variant, stateHandler, orgConnState, shutdown, closer, gpc,
                    closing, keepAlives, listener, listenerCloses, servePc,
                    err, result, conn, lastConnState, connClosed, fwd,
                    closeBeforeServe, activeAtClose, idleAtClose,
                    contrib, regVars >>


\* --------------------------------------------------------------- Close()

\* callers are numbered in the order they call
MayCall(k) ==
    /\ ~panicked
    /\ closer[k] = "idle"
    /\ \A j \in Closers : j < k => closer[j] # "idle"

\* shutdown has been requested: some Close() call has been made
ShutdownRequested == \E k \in Closers : closer[k] # "idle"

\* the connections in the middle of a request
NowActive == {c \in Conns : conn[c] = StateActive}

\* the connections that are Active at the moment shutdown is requested
\* of a Serve that has not returned (the first Close() call)
AtRequest ==
    IF ~ShutdownRequested /\ servePc # "returned"
    THEN NowActive ELSE activeAtClose

\* the connections that are Idle at the moment shutdown is requested of a
\* Serve that has not returned
IdleAtRequest ==
    IF ~ShutdownRequested /\ servePc # "returned"
    THEN {c \in Conns : conn[c] = StateIdle} ELSE idleAtClose

\* "addr": close(s.shutdown); closing a closed channel panics
CloseAddr(k) ==
    /\ variant = "addr"
    /\ MayCall(k)
    /\ IF shutdown = "open"
       THEN /\ shutdown' = "closed"
            /\ closer' = [closer EXCEPT ![k] = "returned"]
            /\ UNCHANGED panicked
       ELSE /\ panicked' = TRUE
            /\ closer' = [closer EXCEPT ![k] = "panic"]
            /\ UNCHANGED shutdown
    /\ closeBeforeServe' = (closeBeforeServe \/ servePc = "init")
    /\ activeAtClose' = AtRequest
    /\ idleAtClose' = IdleAtRequest
    /\ UNCHANGED << variant, stateHandler, orgConnState, gpc, closing,
                    keepAlives, listener, listenerCloses, servePc, err, result,
                    wg, routines, conn, lastConnState, connClosed, fwd,
                    contrib, regVars >>

\* "map": return <-s.shutdown; the caller blocks in the receive
CloseMap(k) ==
    /\ variant = "map"
    /\ MayCall(k)
    /\ closer' = [closer EXCEPT ![k] = "recv"]
    /\ closeBeforeServe' = (closeBeforeServe \/ servePc = "init")
    /\ activeAtClose' = AtRequest
    /\ idleAtClose' = IdleAtRequest
    /\ UNCHANGED << variant, stateHandler, orgConnState, shutdown, gpc, closing,
                    keepAlives, listener, listenerCloses, servePc, err, result,
                    wg, routines, conn, lastConnState, connClosed, fwd,
                    contrib, regVars, panicked >>

\* mutant: the closed channel yields true
ClosedValueTrue == "true"

\* what a receive from the closed chan bool yields: the zero value
ClosedValue == "false"

\* "map": a receive from the closed channel returns at once
CloseRecvClosed(k) ==
    /\ ~panicked
    /\ closer[k] = "recv"
    /\ shutdown = "closed"
    /\ closer' = [closer EXCEPT ![k] = ClosedValue]
    /\ UNCHANGED << variant, stateHandler, orgConnState, shutdown, gpc, closing,
                    keepAlives, listener, listenerCloses, servePc, err, result,
                    wg, routines, conn, lastConnState, connClosed, fwd,
                    closeBeforeServe, activeAtClose, idleAtClose,
                    contrib, regVars, panicked >>

\* ------------------------------------------ the goroutine Serve spawns

\* where the goroutine goes after s.shutdown <- true
AfterSend == "close"

\* "map": s.shutdown <- true meets one blocked receiver (unbuffered)
GoSend(k) ==
    /\ ~panicked
    /\ gpc = "send"
    /\ closer[k] = "recv"
    /\ shutdown = "open"
    /\ closer' = [closer EXCEPT ![k] = "true"]
    /\ gpc' = AfterSend
    /\ UNCHANGED << variant, stateHandler, orgConnState, shutdown, closing,
                    keepAlives, listener, listenerCloses, servePc, err, result,
                    wg, routines, conn, lastConnState, connClosed, fwd,
                    closeBeforeServe, activeAtClose, idleAtClose,
                    contrib, regVars, panicked >>

\* mutant: the listener is closed before keep-alives are disabled
ShutdownOrderSwapped == << "store", "lclose", "keepalive", "done" >>

\* mutant: the listener is closed before the closing flag is stored
ShutdownOrderListenerFirst == << "lclose", "store", "keepalive", "done" >>

\* the three effects of the goroutine, in program order
ShutdownOrder == << "store", "keepalive", "lclose", "done" >>

AfterStep(pc) ==
    LET i == CHOOSE j \in 1..3 : ShutdownOrder[j] = pc IN ShutdownOrder[i + 1]

\* "map": close(s.shutdown)
GoCloseChan ==
    /\ ~panicked
    /\ gpc = "close"
    /\ shutdown' = "closed"
    /\ gpc' = ShutdownOrder[1]
    /\ UNCHANGED << variant, stateHandler, orgConnState, closer, closing,
                    keepAlives, listener, listenerCloses, servePc, err, result,
                    wg, routines, conn, lastConnState, connClosed, fwd,
                    closeBeforeServe, activeAtClose, idleAtClose,
                    contrib, regVars, panicked >>

\* "addr": <-s.shutdown returns once the channel is closed
GoRecv ==
    /\ ~panicked
    /\ gpc = "recv"
    /\ shutdown = "closed"
    /\ gpc' = ShutdownOrder[1]
    /\ UNCHANGED << variant, stateHandler, orgConnState, shutdown, closer,
                    closing, keepAlives, listener, listenerCloses, servePc, err,
                    result, wg, routines, conn, lastConnState, connClosed, fwd,
                    closeBeforeServe, activeAtClose, idleAtClose,
                    contrib, regVars, panicked >>

\* atomic.StoreInt32(&closing, 1)
GoStore ==
    /\ ~panicked
    /\ gpc = "store"
    /\ closing' = 1
    /\ gpc' = AfterStep(gpc)
    /\ UNCHANGED << variant, stateHandler, orgConnState, shutdown, closer,
                    keepAlives, listener, listenerCloses, servePc, err, result,
                    wg, routines, conn, lastConnState, connClosed, fwd,
                    closeBeforeServe, activeAtClose, idleAtClose,
                    contrib, regVars, panicked >>

\* s.Server.SetKeepAlivesEnabled(false)
GoKeepAlives ==
    /\ ~panicked
    /\ gpc = "keepalive"
    /\ keepAlives' = FALSE
    /\ gpc' = AfterStep(gpc)
    /\ UNCHANGED << variant, stateHandler, orgConnState, shutdown, closer,
                    closing, listener, listenerCloses, servePc, err, result,
                    wg, routines, conn, lastConnState, connClosed, fwd,
                    closeBeforeServe, activeAtClose, idleAtClose,
                    contrib, regVars, panicked >>

\* listener.Close()
GoListenerClose ==
    /\ ~panicked
    /\ gpc = "lclose"
    /\ listener' = "closed"
    /\ listenerCloses' = listenerCloses + 1
    /\ gpc' = AfterStep(gpc)
    /\ UNCHANGED << variant, stateHandler, orgConnState, shutdown, closer,
                    closing, keepAlives, servePc, err, result,
                    wg, routines, conn, lastConnState, connClosed, fwd,
                    closeBeforeServe, activeAtClose, idleAtClose,
                    contrib, regVars, panicked >>

\* ----------------------------------------------------------------- Serve

\* Serve up to the serving call: spawn the goroutine, install s.ConnState
ServeStart ==
    /\ ~panicked
    /\ servePc = "init"
    /\ servePc' = "serving"
    /\ gpc' = IF variant = "addr" THEN "recv" ELSE "send"
    /\ UNCHANGED << variant, stateHandler, orgConnState, shutdown, closer,
                    closing, keepAlives, listener, listenerCloses, err, result,
                    wg, routines, conn, lastConnState, connClosed, fwd,
                    closeBeforeServe, activeAtClose, idleAtClose,
                    contrib, regVars, panicked >>

\* the error Accept yields once the listener is closed: the wrapped
\* listenerAlreadyClosed of "addr", the closed-socket error of "map"
AcceptError(e) == IF listener = "closed" THEN ListenerClosed ELSE e

\* s.Server.Serve(listener) / fcgi.Serve returns: its accept loop ends on
\* the first Accept error, a genuine one (e) while the listener is open
ServeCallReturns(e) ==
    /\ ~panicked
    /\ servePc = "serving"
    /\ err' = AcceptError(e)
    /\ servePc' = "check"
    /\ UNCHANGED << variant, stateHandler, orgConnState, shutdown, closer, gpc,
                    closing, keepAlives, listener, listenerCloses, result,
                    wg, routines, conn, lastConnState, connClosed, fwd,
                    closeBeforeServe, activeAtClose, idleAtClose,
                    contrib, regVars, panicked >>

\* mutant: only a nil error counts as a shutdown
IsShutdownNilOnly(e, flag) == e = "nil"

\* the test after the serving call: is this a shutdown (drain, return nil)?
\* "addr": err == nil or err is listenerAlreadyClosed
\* "map" : err == nil or closing == 1
IsShutdown(e, flag) ==
    \/ e = "nil"
    \/ IF variant = "addr" THEN e = ListenerClosed ELSE flag = 1

ServeCheck ==
    /\ ~panicked
    /\ servePc = "check"
    /\ IF IsShutdown(err, closing)
       THEN servePc' = "wait" /\ UNCHANGED result
       ELSE servePc' = "returned" /\ result' = err
    /\ UNCHANGED << variant, stateHandler, orgConnState, shutdown, closer, gpc,
                    closing, keepAlives, listener, listenerCloses, err,
                    wg, routines, conn, lastConnState, connClosed, fwd,
                    closeBeforeServe, activeAtClose, idleAtClose,
                    contrib, regVars, panicked >>

\* mutant: Wait() returns without looking at the counter
WaitDoneAtOnce(counter) == TRUE

\* mutant: Wait() misses the counter being zero
WaitDoneNever(counter) == counter < 0

\* s.wg.Wait() returns when the counter is zero
WaitDone(counter) == counter = 0

\* s.wg.Wait(); return nil
ServeWait ==
    /\ ~panicked
    /\ servePc = "wait"
    /\ WaitDone(wg)
    /\ servePc' = "returned"
    /\ result' = "nil"
    /\ UNCHANGED << variant, stateHandler, orgConnState, shutdown, closer, gpc,
                    closing, keepAlives, listener, listenerCloses, err,
                    wg, routines, conn, lastConnState, connClosed, fwd,
                    closeBeforeServe, activeAtClose, idleAtClose,
                    contrib, regVars, panicked >>

\* ------------------------------------------------------- one instance

\* NewWithServer / NewWithOptions: the state after construction
InitInstance ==
    /\ variant \in Variants
    /\ shutdown = "open"
    /\ closer = [k \in Closers |-> "idle"]
    /\ gpc = "none"
    /\ closing = 0
    /\ keepAlives = TRUE
    /\ listener = "open"
    /\ listenerCloses = 0
    /\ servePc = "init"
    /\ err = NoErr
    /\ result = NoErr
    /\ wg = 0
    /\ routines = 0
    /\ conn = [c \in Conns |-> NoConn]
    /\ lastConnState = [c \in Conns |-> NoEntry]
    /\ connClosed = {}
    /\ fwd = << >>
    /\ panicked = FALSE
    /\ closeBeforeServe = FALSE
    /\ activeAtClose = {}
    /\ idleAtClose = {}
    /\ contrib = [c \in Conns |-> 0]

\* ------------------------------------------------- the process registry

Free == << "free", 0 >>

\* m.Lock() succeeds when nobody holds the mutex
CanLock(holder) == holder = Free

\* package-level ListenAndServe / ListenAndServeFCGI / ListenAndServeTLS /
\* Serve: NewWithServer, then m.Lock()
RegLock(i) ==
    /\ ~panicked
    /\ regPc[i] = "none"
    /\ \A j \in Insts : j < i => regPc[j] # "none"
    /\ CanLock(m)
    /\ m' = << "reg", i >>
    /\ regShutdown' = [regShutdown EXCEPT ![i] = "open"]
    /\ regPc' = [regPc EXCEPT ![i] = "locked"]
    /\ UNCHANGED << instVars, servers, regClosed, gcPc, gcTodo, panicked >>

\* servers = append(servers, server)
RegAppend(i) ==
    /\ ~panicked
    /\ regPc[i] = "locked"
    /\ servers' = Append(servers, i)
    /\ regPc' = [regPc EXCEPT ![i] = "appended"]
    /\ UNCHANGED << instVars, m, regShutdown, regClosed, gcPc, gcTodo,
                    panicked >>

\* m.Unlock()
RegUnlock(i) ==
    /\ ~panicked
    /\ regPc[i] = "appended"
    /\ m' = Free
    /\ regPc' = [regPc EXCEPT ![i] = "unlocked"]
    /\ UNCHANGED << instVars, servers, regShutdown, regClosed, gcPc, gcTodo,
                    panicked >>

\* server.ListenAndServe(): net.Listen fails and the call returns the
\* error, or Serve starts and its goroutine blocks in <-s.shutdown
RegListen(i, ok) ==
    /\ ~panicked
    /\ regPc[i] = "unlocked"
    /\ regPc' = [regPc EXCEPT ![i] = IF ok THEN "serving" ELSE "failed"]
    /\ UNCHANGED << instVars, servers, m, regShutdown, regClosed, gcPc,
                    gcTodo, panicked >>

\* the goroutine of a registered instance sees its channel closed
RegShutdown(i) ==
    /\ ~panicked
    /\ regPc[i] = "serving"
    /\ regShutdown[i] = "closed"
    /\ regPc' = [regPc EXCEPT ![i] = "stopping"]
    /\ UNCHANGED << instVars, servers, m, regShutdown, regClosed, gcPc,
                    gcTodo, panicked >>

\* global Close(): m.Lock(), and `range servers` takes the slice
GcLock(g) ==
    /\ ~panicked
    /\ gcPc[g] = "idle"
    /\ \A h \in GlobalClosers : h < g => gcPc[h] # "idle"
    /\ CanLock(m)
    /\ m' = << "close", g >>
    /\ gcTodo' = [gcTodo EXCEPT ![g] = servers]
    /\ gcPc' = [gcPc EXCEPT ![g] = "ranging"]
    /\ UNCHANGED << instVars, servers, regPc, regShutdown, regClosed,
                    panicked >>

\* s.Close() on the next instance: close(s.shutdown), a panic when the
\* channel is closed already
GcCloseNext(g) ==
    /\ ~panicked
    /\ gcPc[g] = "ranging"
    /\ gcTodo[g] # << >>
    /\ LET i == Head(gcTodo[g])
       IN  /\ regClosed' = [regClosed EXCEPT ![i] = @ + 1]
           /\ IF regShutdown[i] = "open"
              THEN /\ regShutdown' = [regShutdown EXCEPT ![i] = "closed"]
                   /\ UNCHANGED panicked
              ELSE /\ panicked' = TRUE
                   /\ UNCHANGED regShutdown
    /\ gcTodo' = [gcTodo EXCEPT ![g] = Tail(@)]
    /\ UNCHANGED << instVars, servers, m, regPc, gcPc >>

\* s.Close() of the "map" generation on the next instance: <-s.shutdown
\* completes when the goroutine of a running Serve is at s.shutdown <- true
\* or when the channel is closed, and blocks otherwise
GcCloseNextMap(g) ==
    /\ ~panicked
    /\ gcPc[g] = "ranging"
    /\ gcTodo[g] # << >>
    /\ LET i == Head(gcTodo[g])
       IN  /\ (regPc[i] = "serving" /\ regShutdown[i] = "open")
                  \/ regShutdown[i] = "closed"
           /\ regPc' = IF regShutdown[i] = "open"
                       THEN [regPc EXCEPT ![i] = "sent"] ELSE regPc
           /\ regClosed' = [regClosed EXCEPT ![i] = @ + 1]
    /\ gcTodo' = [gcTodo EXCEPT ![g] = Tail(@)]
    /\ UNCHANGED << instVars, servers, m, regShutdown, gcPc, panicked >>

\* "map": the goroutine of a registered instance, after its send:
\* close(s.shutdown)
RegCloseChan(i) ==
    /\ ~panicked
    /\ regPc[i] = "sent"
    /\ regShutdown' = [regShutdown EXCEPT ![i] = "closed"]
    /\ regPc' = [regPc EXCEPT ![i] = "stopping"]
    /\ UNCHANGED << instVars, servers, m, regClosed, gcPc, gcTodo, panicked >>

\* mutant: global Close() forgets servers = nil
ClearedNot(reg) == reg

\* what global Close() leaves in the registry
Cleared(reg) == << >>

\* servers = nil, after the loop
GcClear(g) ==
    /\ ~panicked
    /\ gcPc[g] = "ranging"
    /\ gcTodo[g] = << >>
    /\ servers' = Cleared(servers)
    /\ gcPc' = [gcPc EXCEPT ![g] = "cleared"]
    /\ UNCHANGED << instVars, m, regPc, regShutdown, regClosed, gcTodo,
                    panicked >>

\* m.Unlock()
GcUnlock(g) ==
    /\ ~panicked
    /\ gcPc[g] = "cleared"
    /\ m' = Free
    /\ gcPc' = [gcPc EXCEPT ![g] = "done"]
    /\ UNCHANGED << instVars, servers, regPc, regShutdown, regClosed, gcTodo,
                    panicked >>

\* the registry, empty and unlocked
InitRegistry ==
    /\ servers = << >>
    /\ m = Free
    /\ regPc = [i \in Insts |-> "none"]
    /\ regShutdown = [i \in Insts |-> "none"]
    /\ regClosed = [i \in Insts |-> 0]
    /\ gcPc = [g \in GlobalClosers |-> "idle"]
    /\ gcTodo = [g \in GlobalClosers |-> << >>]

\* NewWithServer(new(http.Server)): no StateHandler, no Server.ConnState
Init ==
    /\ InitInstance
    /\ InitRegistry
    /\ stateHandler = FALSE
    /\ orgConnState = FALSE

\* the host registered observers: Options.StateHandler ("addr" only)
\* and/or a Server.ConnState of its own
InitObserved ==
    /\ InitInstance
    /\ InitRegistry
    /\ stateHandler \in (IF variant = "addr" THEN BOOLEAN ELSE {FALSE})
    /\ orgConnState \in BOOLEAN
    /\ stateHandler \/ orgConnState

Next ==
    \/ \E c \in Conns : Accept(c)
    \/ \E c \in Conns, n \in ConnStates : Transition(c, n)
    \/ StartRoutine
    \/ FinishRoutine
    \/ \E k \in Closers : CloseAddr(k)
    \/ \E k \in Closers : CloseMap(k)
    \/ \E k \in Closers : CloseRecvClosed(k)
    \/ \E k \in Closers : GoSend(k)
    \/ GoCloseChan
    \/ GoRecv
    \/ GoStore
    \/ GoKeepAlives
    \/ GoListenerClose
    \/ ServeStart
    \/ \E e \in GenuineErrs : ServeCallReturns(e)
    \/ ServeCheck
    \/ ServeWait

Spec == Init /\ [][Next]_vars

SpecObserved == InitObserved /\ [][Next]_vars


\* the scheduler runs every goroutine that can take a step: the spawned
\* goroutine, a completed channel operation, Serve after the serving call,
\* and Accept failing once the listener is closed.  Clients, handlers and
\* callers of Close() are under no obligation.
Fairness ==
    /\ WF_vars(\E k \in Closers : GoSend(k))
    /\ WF_vars(\E k \in Closers : CloseRecvClosed(k))
    /\ WF_vars(GoCloseChan)
    /\ WF_vars(GoRecv)
    /\ WF_vars(GoStore)
    /\ WF_vars(GoKeepAlives)
    /\ WF_vars(GoListenerClose)
    /\ WF_vars(listener = "closed" /\ \E e \in GenuineErrs : ServeCallReturns(e))
    /\ WF_vars(ServeCheck)
    /\ WF_vars(ServeWait)

\* the package-level functions of the "addr" generation (lines 321-373)
InitAddr == Init /\ variant = "addr"

NextRegistry ==
    \/ \E i \in Insts : RegLock(i)
    \/ \E i \in Insts : RegAppend(i)
    \/ \E i \in Insts : RegUnlock(i)
    \/ \E i \in Insts, ok \in BOOLEAN : RegListen(i, ok)
    \/ \E i \in Insts : RegShutdown(i)
    \/ \E g \in GlobalClosers : GcLock(g)
    \/ \E g \in GlobalClosers : GcCloseNext(g)
    \/ \E g \in GlobalClosers : GcClear(g)
    \/ \E g \in GlobalClosers : GcUnlock(g)

SpecRegistry == InitAddr /\ [][NextRegistry]_vars

\* the tracker under notifications in any order, repeated or not
NextUnordered ==
    \/ ServeStart
    \/ \E c \in Conns : Accept(c)
    \/ \E c \in Conns, n \in ConnStates : Notify(c, n)

SpecUnordered == Init /\ [][NextUnordered]_vars

\* the "map" generation alone (lines 393-680)
InitMap == Init /\ variant = "map"

NextMap ==
    \/ \E c \in Conns : Accept(c)
    \/ \E c \in Conns, n \in ConnStates : Transition(c, n)
    \/ StartRoutine
    \/ FinishRoutine
    \/ \E k \in Closers : CloseMap(k)
    \/ \E k \in Closers : CloseRecvClosed(k)
    \/ \E k \in Closers : GoSend(k)
    \/ GoCloseChan
    \/ GoStore
    \/ GoKeepAlives
    \/ GoListenerClose
    \/ ServeStart
    \/ \E e \in GenuineErrs : ServeCallReturns(e)
    \/ ServeCheck
    \/ ServeWait

FairSpecMap == InitMap /\ [][NextMap]_vars /\ Fairness

\* the package-level functions over instances of the "map" generation:
\* global Close() (lines 366-373, called at line 678) calls the Close() of
\* lines 476-479
NextRegistryMap ==
    \/ \E i \in Insts : RegLock(i)
    \/ \E i \in Insts : RegAppend(i)
    \/ \E i \in Insts : RegUnlock(i)
    \/ \E i \in Insts, ok \in BOOLEAN : RegListen(i, ok)
    \/ \E i \in Insts : RegCloseChan(i)
    \/ \E g \in GlobalClosers : GcLock(g)
    \/ \E g \in GlobalClosers : GcCloseNextMap(g)
    \/ \E g \in GlobalClosers : GcClear(g)
    \/ \E g \in GlobalClosers : GcUnlock(g)

\* a call that has started runs on: registration up to the listen call,
\* the goroutine of Serve, and global Close() once it holds the lock
FairnessRegistry ==
    /\ WF_vars(\E i \in Insts : RegAppend(i))
    /\ WF_vars(\E i \in Insts : RegUnlock(i))
    /\ WF_vars(\E i \in Insts, ok \in BOOLEAN : RegListen(i, ok))
    /\ WF_vars(\E i \in Insts : RegCloseChan(i))
    /\ WF_vars(\E g \in GlobalClosers : GcCloseNextMap(g))
    /\ WF_vars(\E g \in GlobalClosers : GcClear(g))
    /\ WF_vars(\E g \in GlobalClosers : GcUnlock(g))

FairSpecRegistryMap == InitMap /\ [][NextRegistryMap]_vars /\ FairnessRegistry

\* ============================================================== claims

ReturnsNow == servePc # "returned" /\ servePc' = "returned"

\* C1 (as stated): Serve never returns while a connection that was Active
\* when shutdown was requested is still Active.
C1_Original == servePc = "returned" => activeAtClose = {}

\* C1 (amended): Serve never returns nil while a connection that was Active
\* when shutdown was requested has not yet been seen to become Idle, Closed
\* or Hijacked; only a genuine error of the serving call makes it return
\* earlier.
C1_NoDroppedRequests ==
    (servePc = "returned" /\ activeAtClose # {}) => result \in GenuineErrs

\* Serve is blocked in Wait() on a request that was in flight at Close()
C1_Witness ==
    servePc = "wait" /\ err = ListenerClosed /\ activeAtClose # {} /\ wg > 0

\* C2: calling Close() any number of times never panics, and the listener
\* is closed at most once.
C2_DoubleCloseSafe ==
    /\ \A k \in Closers : closer[k] # "panic"
    /\ listenerCloses <= 1

\* C3: a Close() made before Serve started lets the later Serve end without
\* ever accepting a connection.
C3_CloseBeforeServe ==
    closeBeforeServe => \A c \in Conns : conn[c] = NoConn

\* C5: when the serving call returned because the shutdown closed the
\* listener, Serve returns nil, and it does so with the drain counter at
\* zero; the closure is never returned as an error.
C5_ClosedIsClean ==
    [][(ReturnsNow /\ err = ListenerClosed) => (result' = "nil" /\ wg = 0)]_vars

C5_Witness ==
    servePc = "returned" /\ err = ListenerClosed /\ result = "nil"

\* C6: a genuine error of the serving call is what Serve returns.
C6_GenuineErrorReturned ==
    (servePc = "returned" /\ err \in GenuineErrs) => result = err

\* C8: of the Close() calls on a "map" instance at most one returns true,
\* and none returns false before one has returned true.
C8_TrueOnce ==
    variant = "map" =>
        LET T == {k \in Closers : closer[k] = "true"}
            F == {k \in Closers : closer[k] = "false"}
        IN  /\ Cardinality(T) <= 1
            /\ (F # {} => Cardinality(T) = 1)
            /\ (\A k \in Closers : closer[k] \in {"true", "false"})
                   => Cardinality(T) = 1

C8_Witness ==
    /\ variant = "map"
    /\ \E j, k \in Closers : closer[j] = "true" /\ closer[k] = "false"


\* Serve has been called and has not returned
Running == servePc \in {"serving", "check", "wait"}

\* no connection was ever accepted and no background work is outstanding
NoWork == routines = 0 /\ \A c \in Conns : conn[c] = NoConn

\* no request in flight and every StartRoutine() matched
Quiescent ==
    routines = 0 /\ \A c \in Conns : conn[c] \notin {StateNew, StateActive}

C7_RoutinesDrained ==
    /\ [][(ReturnsNow /\ result' = "nil") => routines = 0]_vars
    /\ (servePc = "wait" /\ Quiescent)
           ~> (servePc = "returned" \/ ~Quiescent)

\* Serve waits for background work alone
C7_Witness ==
    /\ servePc = "wait" /\ routines > 0
    /\ \A c \in Conns : conn[c] \notin {StateNew, StateActive}

\* the observers the host registered, in the order the closure calls them
Observers ==
    (IF stateHandler THEN << "stateHandler" >> ELSE << >>)
    \o (IF orgConnState THEN << "ConnState" >> ELSE << >>)

\* the connection the step notifies the tracker of, if any
Notified(c) == conn'[c] # conn[c]

\* C9 (as stated): every notification reaches every registered observer
\* exactly once, with the connection, the state the tracker held before
\* and the new state.
C9_Original ==
    [][\A c \in Conns : Notified(c) =>
          /\ Len(fwd') = Len(Observers)
          /\ \A i \in 1..Len(fwd') :
                fwd'[i] = << Observers[i], c, LastState(c), conn'[c] >>]_vars

\* C9 (amended): every notification reaches every registered observer
\* exactly once, with the connection and the new state unmodified; the
\* StateHandler also receives the state the tracker held before the
\* notification, the chained Server.ConnState callback receives no
\* previous state.
C9_Forwarded ==
    [][\A c \in Conns : Notified(c) =>
          /\ Len(fwd') = Len(Observers)
          /\ \A i \in 1..Len(fwd') :
                fwd'[i] = IF Observers[i] = "stateHandler"
                          THEN << "stateHandler", c, LastState(c), conn'[c] >>
                          ELSE << "ConnState", c, conn'[c] >>]_vars

\* a request resumes on an idle connection and both observers are told
C9_Witness ==
    \E c \in Conns :
        fwd = << << "stateHandler", c, StateIdle, StateActive >>,
                 << "ConnState", c, StateActive >> >>


\* the instances a global Close() has called Close() on
ClosedByGlobal == {i \in Insts : regClosed[i] > 0}

\* the holders of the registry lock, by their position
InCritical ==
    {<< "reg", i >> : i \in {j \in Insts : regPc[j] \in {"locked", "appended"}}}
    \cup {<< "close", g >> :
            g \in {h \in GlobalClosers : gcPc[h] \in {"ranging", "cleared"}}}

\* C10: global Close() calls Close() on every registered instance and then
\* empties the registry, so no later global Close() finds an earlier member;
\* registration and global Close() exclude each other under the lock; no
\* instance is closed twice by global Close().
C10_GlobalClose ==
    /\ \A i \in Insts : regClosed[i] <= 1
    /\ \A g \in GlobalClosers :
          /\ (gcPc[g] = "ranging" /\ gcTodo[g] = << >>) =>
                \A k \in 1..Len(servers) : regShutdown[servers[k]] = "closed"
          /\ gcPc[g] = "cleared" => servers = << >>
    /\ \A k \in 1..Len(servers) : m[1] = "close" \/ servers[k] \notin ClosedByGlobal
    /\ InCritical \subseteq {m}
    /\ ~panicked

\* a second global Close() ran over a registry that another one had
\* emptied of the instance it closed
C10_Witness ==
    /\ \A g \in GlobalClosers : gcPc[g] = "done"
    /\ \E i \in Insts : regClosed[i] = 1
    /\ servers = << >>


\* the connections with a request in flight or not yet started
InFlight == {c \in Conns : conn[c] \in {StateNew, StateActive}}

C12_DrainCorrect ==
    /\ wg = routines + Cardinality(InFlight)
    /\ routines = 0 => (wg = 0 <=> InFlight = {})

\* one connection is in flight and counted, another is Idle and not counted
C12_Witness ==
    /\ routines = 0 /\ wg = 1
    /\ \E c \in Conns : conn[c] = StateActive
    /\ \E c \in Conns : conn[c] = StateIdle


\* C13: no double counting.  For every connection, once it has been
\* observed Closed or Hijacked, the increments and decrements it caused on
\* the drain counter over its lifetime sum to exactly zero, through any
\* number of Active/Idle cycles and whether or not it was closed by the
\* tracker on Idle during shutdown.
C13_NoDoubleCounting ==
    \A c \in Conns : conn[c] \in Terminal => contrib[c] = 0

\* a connection closed by the tracker on Idle has ended, another ended
\* without being closed by the tracker
C13_Witness ==
    /\ \E c \in Conns : conn[c] \in Terminal /\ c \in connClosed
    /\ \E c \in Conns : conn[c] \in Terminal /\ c \notin connClosed


\* C14: the drain counter never goes below zero (a negative counter is a
\* panic), under any interleaving of connection notifications,
\* StartRoutine/FinishRoutine pairs and shutdown.
C14_NoUnderflow == wg >= 0 /\ (\A c \in Conns : contrib[c] >= 0)

\* the counter is back at zero during shutdown: a connection ended from
\* Idle and the background work has finished
C14_Witness ==
    /\ closing = 1 /\ wg = 0 /\ routines = 0
    /\ \E c \in Conns : conn[c] \in Terminal /\ c \in connClosed
    /\ servePc = "returned"


\* C15 (as stated): every connection observed transitioning into Idle
\* after Close() was called has conn.Close() called on it during that
\* notification.
C15_Original ==
    [][\A c \in Conns :
          (Notified(c) /\ conn'[c] = StateIdle /\ ShutdownRequested)
              => c \in connClosed']_vars

\* C15 (amended): every connection observed transitioning into Idle after
\* the shutdown goroutine has set the closing flag has conn.Close() called
\* on it during that notification; a connection that becomes Idle before
\* the flag is set, also after Close() was called, is left open.
C15_IdleReaped ==
    [][\A c \in Conns :
          (Notified(c) /\ conn'[c] = StateIdle)
              => (c \in connClosed' <=> closing = 1)]_vars

\* a connection became Idle during shutdown and was closed by the tracker
C15_Witness ==
    \E c \in Conns : conn[c] = StateIdle /\ c \in connClosed /\ closing = 1


\* C16: when a notification for a connection is repeated or arrives out
\* of order, the drain counter does not go below zero and the net
\* contribution of a connection reported Closed or Hijacked is zero.
C16_Robust ==
    /\ wg >= 0
    /\ \A c \in Conns : conn[c] \in Terminal => contrib[c] = 0


\* C17 (as stated): the shutdown effects happen in the order keep-alives
\* disabled, listener closed, closing flag set: the listener is not closed
\* while keep-alives are enabled, and the flag is not set while the
\* listener is open.
C17_Original ==
    /\ listener = "closed" => keepAlives = FALSE
    /\ closing = 1 => listener = "closed"

\* C17 (amended): the shutdown effects happen in the order closing flag
\* set, keep-alives disabled, listener closed: keep-alives are not disabled
\* before the flag is set, and the listener is not closed before
\* keep-alives are disabled.
C17_ShutdownOrder ==
    /\ keepAlives = FALSE => closing = 1
    /\ listener = "closed" => keepAlives = FALSE

\* the flag is set while keep-alives are enabled and the listener is open
C17_Witness ==
    closing = 1 /\ keepAlives = TRUE /\ listener = "open" /\ gpc = "keepalive"


\* the connections with an entry in s.lastConnState
Entries == {c \in Conns : lastConnState[c] # NoEntry}

\* C18: the state table of the tracker (the map s.lastConnState) leaks no
\* entry: it holds an entry exactly for the connections whose last
\* observed state is New, Active or Idle, the entry being that state; the
\* notification that reports Closed or Hijacked deletes the entry, and the
\* table is empty once every connection has terminated.
C18_NoLeak ==
    variant = "map" =>
        /\ Entries = {c \in Conns : conn[c] \in {StateNew, StateActive, StateIdle}}
        /\ \A c \in Entries : lastConnState[c] = conn[c]
        /\ (\A c \in Conns : conn[c] \in Terminal \cup {NoConn}) => Entries = {}

\* every connection was accepted and has terminated, one Hijacked and one
\* Closed; the table is empty
C18_Witness ==
    /\ variant = "map"
    /\ \A c \in Conns : conn[c] \in Terminal
    /\ \E c \in Conns : conn[c] = StateHijacked
    /\ \E c \in Conns : conn[c] = StateClosed
    /\ Entries = {}

\* C19: the shutdown goroutine sets the closing flag before it closes the
\* listener, so the listener being closed implies closing = 1; whenever the
\* serving call has returned because of that closure, the check Serve makes
\* takes the branch that drains and returns nil.
C19_FlagBeforeListener ==
    /\ listener = "closed" => closing = 1
    /\ (variant = "map" /\ servePc = "check" /\ err = ListenerClosed)
           => IsShutdown(err, closing)
    /\ (variant = "map" /\ servePc = "returned" /\ err = ListenerClosed)
           => result = "nil"

\* the serving call has returned on the closed listener and Serve is at
\* its check, with the flag set
C19_Witness ==
    /\ variant = "map" /\ servePc = "check" /\ err = ListenerClosed
    /\ listener = "closed" /\ closing = 1


\* C20: global Close() always terminates and releases the registry lock,
\* whatever the registry holds, also an instance whose Serve never started
\* because its listen call failed after registration: a global Close()
\* that holds the lock eventually returns with the lock released.
C20_GlobalCloseTerminates ==
    \A g \in GlobalClosers :
        (gcPc[g] = "ranging") ~> (gcPc[g] = "done" /\ m # << "close", g >>)

====
